---- MODULE Spec2Model ----
(***************************************************************************)
(* The generation orchestration core of src/index.tsx (component App):     *)
(* startGeneration, rerunImageGenerationStep, handleCancelGeneration,      *)
(* reset and the asynchronous function performGeneration, whose awaits are *)
(* the suspension points at which the other handlers interleave.           *)
(*                                                                         *)
(* One action is one run-to-completion piece of JavaScript: a handler up   *)
(* to its first await, or the continuation of an await up to the next one. *)
(* React state setters issued in one such piece are applied together.      *)
(* Timestamps (performance.now()) are abstracted to "set"/"null"; a step's   *)
(* time is 0, "elapsed" (any toFixed(2) text written while loading, "0.00" *)
(* included) or "final" (the text frozen by updateStep).  Texts are        *)
(* sequences of string pieces, so that concatenation and join are computed.*)
(*                                                                         *)
(* A run keeps the view results in the order they settled, and Promise.all *)
(* places them by the position of their promise.  lastInput records what   *)
(* the step just taken consumed (the outcome of a cancel PUT, the order in *)
(* which the views settled).  The input files are changed only while the   *)
(* bounds leave room for another generation (WithinHorizon).               *)
(***************************************************************************)
EXTENDS Integers, Sequences, FiniteSets, TLC

\* Bound of the model: the number of clicks on Generate / Rerun / Cancel.
MaxClicks == 3

\* Bound of the model: the number of invocations of performGeneration.
MaxRuns == 2

\* handleFileChange keeps at most three input files (slice(0, 3 - files.length)).
MaxFiles == 3

VARIABLES
    files,                 \* number of input files (files.length)
    isFetchingUrl,         \* handleUrlFetch in flight
    isLoading,             \* the busy flag
    error,                 \* error message, NoError for null
    modelUrl,              \* mesh URL, "null" for null
    steps,                 \* the step list
    generatedImages,       \* the generated-image list
    totalGenerationTime,   \* "null" or "duration"
    generationId,          \* generationId.current
    falCancelUrl,          \* falCancelUrl.current: 0 for null, else the job (run) whose cancel_url it is
    timerIntervalRef,      \* 0 for null, else the (1-based) step the interval updates
    stepStartRef,          \* TRUE when stepStartRef.current holds a timestamp
    generationStartRef,    \* "null" or "set"
    run,                   \* the invocations of performGeneration, by order of invocation
    cancelAwait,           \* handleCancelGeneration invocations awaiting their PUT
    rerunAwait,            \* rerunImageGenerationStep invocations awaiting their PUT
    clicks,                \* history: clicks on Generate / Rerun / Cancel so far
    issued,                \* history: remote requests issued, <<run, kind>>
    putIssued,             \* history: jobs (runs) whose cancel URL received a PUT
    disturbed,             \* history: runs during which a cancel/rerun handler ran or resumed
    lastInput,             \* history: what the step just taken consumed (see noInputConsumed)
    image                  \* the image handed to resizeImage and its canvas (see noImage)

vars == <<files, isFetchingUrl, isLoading, error, modelUrl, steps, generatedImages,
          totalGenerationTime, generationId, falCancelUrl, timerIntervalRef,
          stepStartRef, generationStartRef, run, cancelAwait, rerunAwait, clicks,
          issued, putIssued, disturbed, lastInput, image>>

\* The consumer-facing signals.
visible == <<steps, generatedImages, modelUrl, error, isLoading, totalGenerationTime>>

Slots == 1..MaxRuns

\* The step just taken settled no cancel PUT and resolved no Promise.all of views.
\* put: "resolved" / "rejected" when the step resumed a handler from its PUT;
\* settled: the order in which the three views settled, when the step resumed
\* performGeneration from Promise.all(viewPromises).
noInputConsumed == [put |-> "none", settled |-> <<>>]

-----------------------------------------------------------------------------
(* Texts *)

NoError == <<>>

RECURSIVE Join(_)
\* logs.map(log => log.message).join('\n')
Join(lines) ==
    IF Len(lines) = 0 THEN <<>>
    ELSE IF Len(lines) = 1 THEN lines[1]
    ELSE lines[1] \o <<"\n">> \o Join(Tail(lines))

\* The logs field of a status or result body: absent, or a list of messages.
LogInputs ==
    { [has |-> FALSE, lines |-> <<>>],
      [has |-> TRUE,  lines |-> <<>>],
      [has |-> TRUE,  lines |-> << <<"out of memory">> >>],
      [has |-> TRUE,  lines |-> << <<"mesh failed">>, <<"out of memory">> >>] }

\* logs?.map(...).join('\n'): undefined (falsy) when logs is absent
JoinedLogs(logs) == IF logs.has THEN Join(logs.lines) ELSE <<>>

ViewError(viewName) == <<"Gemini failed to generate the ", viewName, ".">>

ResizeError == <<"Failed to load image for resizing.">>

FetchRejected == <<"Failed to fetch">>

SubmitError(body) == <<"Fal.ai submission failed: ">> \o body

PollErrorMessage(logs) ==
    IF JoinedLogs(logs) = <<>> THEN <<"Polling error.">> ELSE JoinedLogs(logs)

ResultErrorMessage(logs) ==
    <<"Generation failed: ">> \o
        (IF JoinedLogs(logs) = <<>> THEN <<"Unknown error">> ELSE JoinedLogs(logs))

\* e.message || "An unknown error occurred."
ErrMessage(message) ==
    IF message = <<>> THEN <<"An unknown error occurred.">> ELSE message

\* Response bodies of a rejected submission.
SubmitBodies == { <<"server error">>, <<>> }

\* Bodies of the result endpoint.
ResultInputs ==
    { [status |-> "OK",    url |-> "meshA", logs |-> [has |-> FALSE, lines |-> <<>>]],
      [status |-> "OK",    url |-> "meshB", logs |-> [has |-> FALSE, lines |-> <<>>]],
      [status |-> "OK",    url |-> "null",  logs |-> [has |-> FALSE, lines |-> <<>>]],
      [status |-> "OK",    url |-> "null",  logs |-> [has |-> TRUE, lines |-> << <<"mesh failed">> >>]],
      [status |-> "ERROR", url |-> "meshA", logs |-> [has |-> TRUE, lines |-> << <<"out of memory">> >>]] }

-----------------------------------------------------------------------------
(* Steps and their timer *)

initialSteps ==
    << [name |-> "Generate View Images", status |-> "pending", time |-> "0"],
       [name |-> "Generate 3D Model",    status |-> "pending", time |-> "0"] >>

viewNames == <<"front view", "back view", "left side view">>

\* viewName.charAt(0).toUpperCase() + viewName.slice(1)
labels == <<"Front view", "Back view", "Left side view">>

results == [i \in 1..3 |-> [label |-> labels[i], url |-> viewNames[i]]]

\* What generateSingleView(viewNames[v]) resolves with, and the position of its
\* promise in viewPromises.
ViewSettled(v) == [pos |-> v, value |-> [label |-> labels[v], url |-> viewNames[v]]]

PromiseAllInCompletionOrder(settled) ==
    [i \in 1..Len(settled) |-> settled[i].value]

\* await Promise.all(promises): the values by the position of their promise,
\* `settled` being the promises' outcomes in the order they settled.
PromiseAll(settled) ==
    [i \in 1..Len(settled) |->
        (CHOOSE s \in {settled[k] : k \in 1..Len(settled)} : s.pos = i).value]

\* Bound of the model: the sides of the images handed to resizeImage.
MaxSide == 7

\* Bound of the model: the values of maxSize.
MaxMaxSize == 4

\* The width and height of the image resizeImage loads, its maxSize, and the
\* canvas dimensions it draws the image at (<<>> before img.onload has run).
\* The orchestration treats the images as opaque: there no image is loaded.
noImage == [width |-> 0, height |-> 0, maxSize |-> 0, canvas |-> <<>>]

RoundTruncates(a, b) == a \div b

\* Math.round(a / b) for integers a >= 0, b > 0: the floor of a/b + 1/2
Round(a, b) == (2 * a + b) \div (2 * b)

\* lines 225-240 of resizeImage: <<canvas.width, canvas.height>>
ResizeDims(width, height, maxSize) ==
    IF width > height
    THEN IF width > maxSize
         THEN <<maxSize, Round(height * maxSize, width)>>
         ELSE <<width, height>>
    ELSE IF height > maxSize
         THEN <<Round(width * maxSize, height), maxSize>>
         ELSE <<width, height>>

\* What resizeImage(url, 1024) resolves with: a WebP data URL of the image.
ResizeImage(url) == <<"webp", url>>

noInput == [front_image_url |-> <<>>, back_image_url |-> <<>>, left_image_url |-> <<>>]

\* const [frontResized, backResized, leftResized] = resizedImageUrls; const input = ...
JobInput(resizedImageUrls) ==
    [front_image_url |-> resizedImageUrls[1],
     back_image_url  |-> resizedImageUrls[2],
     left_image_url  |-> resizedImageUrls[3]]

\* updateStep(index - 1, newStatus) applied to st = [steps, timer, stepStart]
UpdateStep(st, index, newStatus) ==
    IF newStatus = "loading"
    THEN [ steps |-> [st.steps EXCEPT ![index] =
                         [@ EXCEPT !.status = "loading", !.time = "elapsed"]],
           timer |-> index,
           stepStart |-> TRUE ]
    ELSE [ steps |-> [st.steps EXCEPT ![index] =
                         [@ EXCEPT !.time = IF st.steps[index].status = "loading"
                                               /\ st.stepStart
                                            THEN "final" ELSE @,
                                   !.status = newStatus]],
           timer |-> 0,
           stepStart |-> FALSE ]

StepState == [steps |-> steps, timer |-> timerIntervalRef, stepStart |-> stepStartRef]

\* prev.map(s => s.status === 'loading' ? { ...s, status: 'error' } : s)
MarkLoadingAsError(ss) ==
    [i \in DOMAIN ss |-> IF ss[i].status = "loading"
                         THEN [ss[i] EXCEPT !.status = "error"] ELSE ss[i]]

\* the interval callback of updateStep
TimerTick ==
    /\ timerIntervalRef # 0
    /\ stepStartRef
    /\ timerIntervalRef \in DOMAIN steps
    /\ steps[timerIntervalRef].status = "loading"
    /\ steps' = [steps EXCEPT ![timerIntervalRef] = [@ EXCEPT !.time = "elapsed"]]
    /\ UNCHANGED <<files, isFetchingUrl, isLoading, error, modelUrl, generatedImages,
                   totalGenerationTime, generationId, falCancelUrl, timerIntervalRef,
                   stepStartRef, generationStartRef, run, cancelAwait, rerunAwait,
                   clicks, issued, putIssued, disturbed>>
          /\ UNCHANGED image /\ lastInput' = noInputConsumed

-----------------------------------------------------------------------------
(* performGeneration *)

\* polls: status requests of the run's job awaiting their response;
\* pollBody: pollBody.status of the current loop iteration ("none" before it
\* is received); fetches: result requests issued for the run's job.
idleRun == [pc |-> "idle", id |-> 0, views |-> <<>>, results |-> <<>>,
            input |-> noInput, polls |-> 0, pollBody |-> "none", fetches |-> 0,
            end |-> "none"]

Started == {r \in Slots : run[r].pc # "idle"}

Running == {r \in Slots : run[r].pc \notin {"idle", "done"}}

NextSlot == Cardinality(Started) + 1

\* Another invocation of performGeneration fits the bound.
RunFits == Cardinality(Started) + rerunAwait < MaxRuns

BeginIdNoIncrement == generationId

BeginIdSkips == generationId + 2

\* generationId.current++; const currentGenerationId = generationId.current
BeginId == generationId + 1

\* generationId.current !== currentGenerationId, at each place the code tests it
StaleAfterViews(r) == generationId # run[r].id

StaleAfterResize(r) == generationId # run[r].id

StaleAfterSubmit(r) == generationId # run[r].id

StaleAtLoopHead(r) == generationId # run[r].id

StaleAfterLoop(r) == generationId # run[r].id

StaleInCatchNever(r) == FALSE

StaleInCatch(r) == generationId # run[r].id

CurrentInFinallyNever(r) == FALSE

CurrentInFinallyAlways(r) == TRUE

CurrentInFinally(r) == generationId = run[r].id

\* The run r ends: by "success", by "error" (the catch block set the error), by
\* "stale" (a return from the try block) or "dropped" (the catch block's return).
Ended(r, how) ==
    [run EXCEPT ![r] = [@ EXCEPT !.pc = "done", !.end = how, !.views = <<>>,
                                 !.results = <<>>, !.pollBody = "none",
                                 !.polls = IF run[r].pc = "poll" THEN @ - 1 ELSE @]]

At(r, pc) == [run EXCEPT ![r] = [@ EXCEPT !.pc = pc]]

\* finally { if (generationId.current === currentGenerationId) { ... } }
Finally(r) ==
    /\ isLoading' = IF CurrentInFinally(r) THEN FALSE ELSE isLoading
    /\ falCancelUrl' = IF CurrentInFinally(r) THEN 0 ELSE falCancelUrl

\* `return` from inside the try block: only the finally block runs.
Return(r) ==
    /\ run' = Ended(r, "stale")
    /\ Finally(r)
    /\ UNCHANGED <<files, isFetchingUrl, error, modelUrl, steps, generatedImages,
                   totalGenerationTime, generationId, timerIntervalRef, stepStartRef,
                   generationStartRef, cancelAwait, rerunAwait, clicks, issued,
                   putIssued, disturbed>>
          /\ UNCHANGED image /\ lastInput' = noInputConsumed

\* An exception with this message reaches the catch block, then the finally block.
Throw(r, message) ==
    /\ run' = Ended(r, IF StaleInCatch(r) THEN "dropped" ELSE "error")
    /\ error' = IF StaleInCatch(r) THEN error ELSE ErrMessage(message)
    /\ steps' = IF StaleInCatch(r) THEN steps ELSE MarkLoadingAsError(steps)
    /\ generationStartRef' = IF StaleInCatch(r) THEN generationStartRef ELSE "null"
    /\ Finally(r)
    /\ UNCHANGED <<files, isFetchingUrl, modelUrl, generatedImages,
                   totalGenerationTime, generationId, timerIntervalRef, stepStartRef,
                   cancelAwait, rerunAwait, clicks, issued, putIssued, disturbed>>
          /\ UNCHANGED image /\ lastInput' = noInputConsumed

\* performGeneration() up to its first await, on the step list `base`
\* (the caller has just called setSteps(initialSteps)).
PerformBegin(base) ==
    LET st == UpdateStep([steps |-> base, timer |-> timerIntervalRef,
                          stepStart |-> stepStartRef], 1, "loading")
    IN /\ generationId' = BeginId
       /\ run' = [run EXCEPT ![NextSlot] =
                     [idleRun EXCEPT !.pc = "readFiles", !.id = BeginId]]
       /\ steps' = st.steps
       /\ timerIntervalRef' = st.timer
       /\ stepStartRef' = st.stepStart

\* await Promise.all(files.map(fileToGenerativePart)) resolves; the three view
\* requests are issued.
FilesRead(r) ==
    /\ run[r].pc = "readFiles"
    /\ run' = At(r, "views")
    /\ issued' = issued \cup {<<r, "view">>}
    /\ UNCHANGED <<files, isFetchingUrl, isLoading, error, modelUrl, steps,
                   generatedImages, totalGenerationTime, generationId, falCancelUrl,
                   timerIntervalRef, stepStartRef, generationStartRef, cancelAwait,
                   rerunAwait, clicks, putIssued, disturbed>>
          /\ UNCHANGED image /\ lastInput' = noInputConsumed

\* lines 284-292, once Promise.all(viewPromises) has resolved, the views having
\* settled in the order `settled`
AfterViews(r, settled) ==
    IF StaleAfterViews(r) THEN Return(r)
    ELSE LET st == UpdateStep(UpdateStep(StepState, 1, "done"), 2, "loading")
         IN /\ generatedImages' = PromiseAll(settled)
            /\ steps' = st.steps
            /\ timerIntervalRef' = st.timer
            /\ stepStartRef' = st.stepStart
            /\ run' = [run EXCEPT ![r] = [@ EXCEPT !.pc = "resize",
                                                   !.views = <<>>,
                                                   !.results = PromiseAll(settled)]]
            /\ UNCHANGED <<files, isFetchingUrl, isLoading, error, modelUrl,
                           totalGenerationTime, generationId, falCancelUrl,
                           generationStartRef, cancelAwait, rerunAwait, clicks,
                           issued, putIssued, disturbed>>
                  /\ UNCHANGED image /\ lastInput' = [noInputConsumed EXCEPT !.settled = settled]

\* One view request completes, with an image part (ok) or without.
ViewResponse(r, v, ok) ==
    /\ run[r].pc = "views"
    /\ \A k \in 1..Len(run[r].views) : run[r].views[k].pos # v
    /\ IF ~ok THEN Throw(r, ViewError(viewNames[v]))
       ELSE IF Len(run[r].views) = 2
       THEN AfterViews(r, Append(run[r].views, ViewSettled(v)))
       ELSE /\ run' = [run EXCEPT ![r].views = Append(@, ViewSettled(v))]
            /\ UNCHANGED <<files, isFetchingUrl, isLoading, error, modelUrl, steps,
                           generatedImages, totalGenerationTime, generationId,
                           falCancelUrl, timerIntervalRef, stepStartRef,
                           generationStartRef, cancelAwait, rerunAwait, clicks,
                           issued, putIssued, disturbed>>
                  /\ UNCHANGED image /\ lastInput' = noInputConsumed

\* await Promise.all(resizePromises) settles; lines 294-309
ResizeDone(r, ok) ==
    /\ run[r].pc = "resize"
    /\ IF ~ok THEN Throw(r, ResizeError)
       ELSE IF StaleAfterResize(r) THEN Return(r)
       ELSE /\ run' = [run EXCEPT ![r] =
                          [@ EXCEPT !.pc = "submit",
                                    !.input = JobInput([i \in 1..3 |->
                                                 ResizeImage(run[r].results[i].url)])]]
            /\ issued' = issued \cup {<<r, "submit">>}
            /\ UNCHANGED <<files, isFetchingUrl, isLoading, error, modelUrl, steps,
                           generatedImages, totalGenerationTime, generationId,
                           falCancelUrl, timerIntervalRef, stepStartRef,
                           generationStartRef, cancelAwait, rerunAwait, clicks,
                           putIssued, disturbed>>
                  /\ UNCHANGED image /\ lastInput' = noInputConsumed

\* The POST settles: rejected, or a response that is ok or not; lines 311-313
SubmitResponse(r, outcome) ==
    /\ run[r].pc = "submit"
    /\ IF outcome = "reject" THEN Throw(r, FetchRejected)
       ELSE IF StaleAfterSubmit(r) THEN Return(r)
       ELSE /\ run' = At(r, IF outcome = "ok" THEN "submitJson" ELSE "submitText")
            /\ UNCHANGED <<files, isFetchingUrl, isLoading, error, modelUrl, steps,
                           generatedImages, totalGenerationTime, generationId,
                           falCancelUrl, timerIntervalRef, stepStartRef,
                           generationStartRef, cancelAwait, rerunAwait, clicks,
                           issued, putIssued, disturbed>>
                  /\ UNCHANGED image /\ lastInput' = noInputConsumed

\* await submitResponse.text() resolves; line 312 throws
SubmitText(r, body) ==
    /\ run[r].pc = "submitText"
    /\ Throw(r, SubmitError(body))

\* The head of the poll loop, lines 318-320: return when stale, else GET statusUrl.
LoopHead(r) ==
    /\ run' = IF StaleAtLoopHead(r) THEN Ended(r, "stale")
              ELSE [run EXCEPT ![r] = [@ EXCEPT !.pc = "poll", !.polls = @ + 1,
                                                 !.pollBody = "none"]]
    /\ issued' = IF StaleAtLoopHead(r) THEN issued ELSE issued \cup {<<r, "status">>}

\* await submitResponse.json() resolves; lines 313-320
SubmitJson(r) ==
    /\ run[r].pc = "submitJson"
    /\ falCancelUrl' = IF StaleAtLoopHead(r) /\ CurrentInFinally(r) THEN 0 ELSE r
    /\ isLoading' = IF StaleAtLoopHead(r) /\ CurrentInFinally(r) THEN FALSE
                    ELSE isLoading
    /\ LoopHead(r)
    /\ UNCHANGED <<files, isFetchingUrl, error, modelUrl, steps,
                   generatedImages, totalGenerationTime, generationId,
                   timerIntervalRef, stepStartRef, generationStartRef, cancelAwait,
                   rerunAwait, clicks, putIssued, disturbed>>
          /\ UNCHANGED image /\ lastInput' = noInputConsumed

JobCompletedOrRunning(status) == status # "ERROR"

JobNeverCompleted(status) == FALSE

\* pollBody.status === "COMPLETED"
JobCompleted(status) == status = "COMPLETED"

\* The status request and its json() resolve; lines 320-334
PollResponse(r, status, logs) ==
    /\ run[r].pc = "poll"
    /\ IF ~JobCompleted(status) /\ status = "ERROR"
       THEN Throw(r, PollErrorMessage(logs))
       ELSE /\ run' = [run EXCEPT ![r] =
                          [@ EXCEPT !.pc = IF JobCompleted(status) THEN "result"
                                           ELSE "sleep",
                                    !.polls = @ - 1,
                                    !.pollBody = status,
                                    !.fetches = IF JobCompleted(status) THEN @ + 1
                                                ELSE @]]
            /\ issued' = IF JobCompleted(status) THEN issued \cup {<<r, "result">>}
                         ELSE issued
            /\ UNCHANGED image /\ lastInput' = noInputConsumed
            /\ UNCHANGED <<files, isFetchingUrl, isLoading, error, modelUrl, steps,
                           generatedImages, totalGenerationTime, generationId,
                           falCancelUrl, timerIntervalRef, stepStartRef,
                           generationStartRef, cancelAwait, rerunAwait, clicks,
                           putIssued, disturbed>>

\* The 5 s delay of line 334 elapses; back to the loop head.
SleepDone(r) ==
    /\ run[r].pc = "sleep"
    /\ LoopHead(r)
    /\ IF StaleAtLoopHead(r) THEN Finally(r)
       ELSE UNCHANGED <<isLoading, falCancelUrl>>
    /\ UNCHANGED <<files, isFetchingUrl, error, modelUrl, steps, generatedImages,
                   totalGenerationTime, generationId, timerIntervalRef, stepStartRef,
                   generationStartRef, cancelAwait, rerunAwait, clicks, putIssued,
                   disturbed>>
          /\ UNCHANGED image /\ lastInput' = noInputConsumed

\* resultData.status === 'ERROR' || resultData.model_mesh?.url == null
ResultIsBad(d) == d.status = "ERROR" \/ d.url = "null"

\* lines 336-345 and the finally block, with finalResult = d
Success(r, d) ==
    LET st == UpdateStep(StepState, 2, "done")
    IN /\ steps' = st.steps
       /\ timerIntervalRef' = st.timer
       /\ stepStartRef' = st.stepStart
       /\ modelUrl' = d.url
       /\ totalGenerationTime' = IF generationStartRef # "null" THEN "duration"
                                 ELSE totalGenerationTime
       /\ generationStartRef' = "null"
       /\ run' = Ended(r, "success")
       /\ Finally(r)
       /\ UNCHANGED <<files, isFetchingUrl, error, generatedImages, generationId,
                      cancelAwait, rerunAwait, clicks, issued, putIssued, disturbed>>
             /\ UNCHANGED image /\ lastInput' = noInputConsumed

\* The result request and its json() resolve; lines 325-345
ResultResponse(r, d) ==
    /\ run[r].pc = "result"
    /\ IF ResultIsBad(d) THEN Throw(r, ResultErrorMessage(d.logs))
       ELSE IF StaleAfterLoop(r)
       THEN /\ run' = Ended(r, "stale")
            /\ Finally(r)
            /\ UNCHANGED <<files, isFetchingUrl, error, modelUrl, steps,
                           generatedImages, totalGenerationTime, generationId,
                           timerIntervalRef, stepStartRef, generationStartRef,
                           cancelAwait, rerunAwait, clicks, issued, putIssued,
                           disturbed>>
                  /\ UNCHANGED image /\ lastInput' = noInputConsumed
       ELSE Success(r, d)

-----------------------------------------------------------------------------
(* The handlers *)

\* The loading overlay's Rerun / Cancel buttons are rendered (lines 525, 543, 554).
LoadingActionsShown == isLoading /\ modelUrl = "null" /\ Len(generatedImages) > 0

\* The input panel with the Generate button is rendered (lines 565, 617).
GeneratorShown == modelUrl = "null"

\* The input panel is not covered by the loading overlay (line 525).
InputPanelUsable == GeneratorShown /\ ~isLoading

\* The bounds leave room for another generation: the input files are changed
\* only while they can still be used.
WithinHorizon == clicks < MaxClicks /\ RunFits

\* The result view with the Create Another button is rendered (lines 565, 615).
ResultShown == modelUrl # "null"

StartIgnoredOnlyWhenBusy == isLoading

\* if (files.length === 0 || isLoading) return;
StartIgnored == files = 0 \/ isLoading

startGeneration ==
    /\ GeneratorShown
    /\ clicks < MaxClicks
    /\ StartIgnored \/ RunFits
    /\ clicks' = clicks + 1
    /\ IF StartIgnored
       THEN UNCHANGED <<files, isFetchingUrl, isLoading, error, modelUrl, steps,
                        generatedImages, totalGenerationTime, generationId,
                        falCancelUrl, timerIntervalRef, stepStartRef,
                        generationStartRef, run, cancelAwait, rerunAwait, issued,
                        putIssued, disturbed>>
             /\ UNCHANGED image /\ lastInput' = noInputConsumed
       ELSE \* resetStateForGeneration(); generationStartRef = now; performGeneration()
            /\ isLoading' = TRUE
            /\ error' = NoError
            /\ modelUrl' = "null"
            /\ generatedImages' = <<>>
            /\ falCancelUrl' = 0
            /\ totalGenerationTime' = "null"
            /\ generationStartRef' = "set"
            /\ PerformBegin(initialSteps)
            /\ UNCHANGED <<files, isFetchingUrl, cancelAwait, rerunAwait, issued,
                           putIssued, disturbed>>
                  /\ UNCHANGED image /\ lastInput' = noInputConsumed

RerunBodyKeepsImages ==
    /\ error' = NoError
    /\ modelUrl' = "null"
    /\ isLoading' = TRUE
    /\ totalGenerationTime' = "null"
    /\ generationStartRef' = "set"
    /\ PerformBegin(initialSteps)
    /\ disturbed' = disturbed \cup Running
    /\ UNCHANGED <<files, isFetchingUrl, falCancelUrl, issued, generatedImages>>

\* lines 376-383 of rerunImageGenerationStep
RerunBody ==
    /\ error' = NoError
    /\ modelUrl' = "null"
    /\ generatedImages' = <<>>
    /\ isLoading' = TRUE
    /\ totalGenerationTime' = "null"
    /\ generationStartRef' = "set"
    /\ PerformBegin(initialSteps)
    /\ disturbed' = disturbed \cup Running
    /\ UNCHANGED <<files, isFetchingUrl, falCancelUrl, issued>>

\* A click on Rerun Image Generation: up to the await of the PUT, or to the end.
rerunImageGenerationStep ==
    /\ LoadingActionsShown
    /\ clicks < MaxClicks
    /\ RunFits
    /\ clicks' = clicks + 1
    /\ IF falCancelUrl # 0
       THEN /\ putIssued' = putIssued \cup {falCancelUrl}
            /\ rerunAwait' = rerunAwait + 1
            /\ disturbed' = disturbed \cup Running
            /\ UNCHANGED <<files, isFetchingUrl, isLoading, error, modelUrl, steps,
                           generatedImages, totalGenerationTime, generationId,
                           falCancelUrl, timerIntervalRef, stepStartRef,
                           generationStartRef, run, cancelAwait, issued>>
                  /\ UNCHANGED image /\ lastInput' = noInputConsumed
       ELSE /\ RerunBody
            /\ UNCHANGED <<putIssued, rerunAwait, cancelAwait>>
                  /\ UNCHANGED image /\ lastInput' = noInputConsumed

\* await fetch(falCancelUrl.current, { method: 'PUT' }) settles: resolved (ok) or
\* rejected; catch (e) { console.error(...) } swallows the rejection.
PutSettles(ok) ==
    /\ UNCHANGED image
    /\ lastInput' = [noInputConsumed EXCEPT !.put = IF ok THEN "resolved"
                                                  ELSE "rejected"]

RerunResumeRethrows(ok) ==
    /\ rerunAwait > 0
    /\ rerunAwait' = rerunAwait - 1
    /\ PutSettles(ok)
    /\ IF ok THEN RerunBody
       ELSE UNCHANGED <<files, isFetchingUrl, isLoading, error, modelUrl, steps,
                        generatedImages, totalGenerationTime, generationId,
                        falCancelUrl, timerIntervalRef, stepStartRef,
                        generationStartRef, run, issued, disturbed>>
    /\ UNCHANGED <<putIssued, cancelAwait, clicks>>

\* The PUT of a rerun settles; lines 372-383
RerunResume(ok) ==
    /\ rerunAwait > 0
    /\ rerunAwait' = rerunAwait - 1
    /\ PutSettles(ok)
    /\ RerunBody
    /\ UNCHANGED <<putIssued, cancelAwait, clicks>>

CancelBodyKeepsImages ==
    /\ timerIntervalRef' = 0
    /\ files' = 0
    /\ isLoading' = FALSE
    /\ error' = NoError
    /\ modelUrl' = "null"
    /\ steps' = initialSteps
    /\ falCancelUrl' = 0
    /\ totalGenerationTime' = "null"
    /\ generationStartRef' = "null"
    /\ disturbed' = disturbed \cup Running
    /\ UNCHANGED <<generatedImages, isFetchingUrl, stepStartRef, run, issued>>

\* lines 392-396 of handleCancelGeneration: stop the timer, reset()
CancelBody ==
    /\ timerIntervalRef' = 0
    /\ files' = 0
    /\ isLoading' = FALSE
    /\ error' = NoError
    /\ modelUrl' = "null"
    /\ steps' = initialSteps
    /\ generatedImages' = <<>>
    /\ falCancelUrl' = 0
    /\ totalGenerationTime' = "null"
    /\ generationStartRef' = "null"
    /\ disturbed' = disturbed \cup Running
    /\ UNCHANGED <<isFetchingUrl, stepStartRef, run, issued>>

\* A click on Cancel & Start Over: up to the await of the PUT, or to the end.
handleCancelGeneration ==
    /\ LoadingActionsShown
    /\ clicks < MaxClicks
    /\ clicks' = clicks + 1
    /\ IF falCancelUrl # 0
       THEN /\ generationId' = generationId + 1
            /\ putIssued' = putIssued \cup {falCancelUrl}
            /\ cancelAwait' = cancelAwait + 1
            /\ disturbed' = disturbed \cup Running
            /\ UNCHANGED <<files, isFetchingUrl, isLoading, error, modelUrl, steps,
                           generatedImages, totalGenerationTime, falCancelUrl,
                           timerIntervalRef, stepStartRef, generationStartRef, run,
                           rerunAwait, issued>>
                  /\ UNCHANGED image /\ lastInput' = noInputConsumed
       ELSE /\ generationId' = generationId + 1
            /\ CancelBody
            /\ UNCHANGED <<putIssued, cancelAwait, rerunAwait>>
                  /\ UNCHANGED image /\ lastInput' = noInputConsumed

\* The PUT of a cancel settles; lines 389-396
CancelResume(ok) ==
    /\ cancelAwait > 0
    /\ cancelAwait' = cancelAwait - 1
    /\ PutSettles(ok)
    /\ CancelBody
    /\ UNCHANGED <<generationId, putIssued, rerunAwait, clicks>>

\* A click on Create Another: reset()
reset ==
    /\ ResultShown
    /\ files' = 0
    /\ isLoading' = FALSE
    /\ error' = NoError
    /\ modelUrl' = "null"
    /\ steps' = initialSteps
    /\ generatedImages' = <<>>
    /\ falCancelUrl' = 0
    /\ totalGenerationTime' = "null"
    /\ generationStartRef' = "null"
    /\ UNCHANGED <<isFetchingUrl, generationId, timerIntervalRef, stepStartRef, run,
                   cancelAwait, rerunAwait, clicks, issued, putIssued, disturbed>>
          /\ UNCHANGED image /\ lastInput' = noInputConsumed

\* handleFileChange with n selected files
handleFileChange(n) ==
    /\ InputPanelUsable
    /\ WithinHorizon
    /\ files < MaxFiles
    /\ files' = files + (IF n < MaxFiles - files THEN n ELSE MaxFiles - files)
    /\ UNCHANGED <<isFetchingUrl, isLoading, error, modelUrl, steps, generatedImages,
                   totalGenerationTime, generationId, falCancelUrl, timerIntervalRef,
                   stepStartRef, generationStartRef, run, cancelAwait, rerunAwait,
                   clicks, issued, putIssued, disturbed>>
          /\ UNCHANGED image /\ lastInput' = noInputConsumed

removeFile ==
    /\ InputPanelUsable
    /\ WithinHorizon
    /\ files > 0
    /\ files' = files - 1
    /\ UNCHANGED <<isFetchingUrl, isLoading, error, modelUrl, steps, generatedImages,
                   totalGenerationTime, generationId, falCancelUrl, timerIntervalRef,
                   stepStartRef, generationStartRef, run, cancelAwait, rerunAwait,
                   clicks, issued, putIssued, disturbed>>
          /\ UNCHANGED image /\ lastInput' = noInputConsumed

\* handleUrlFetch up to its first await (a valid product URL was typed)
handleUrlFetch ==
    /\ InputPanelUsable
    /\ WithinHorizon
    /\ ~isFetchingUrl
    /\ files < MaxFiles
    /\ isFetchingUrl' = TRUE
    /\ error' = NoError
    /\ UNCHANGED <<files, isLoading, modelUrl, steps, generatedImages,
                   totalGenerationTime, generationId, falCancelUrl, timerIntervalRef,
                   stepStartRef, generationStartRef, run, cancelAwait, rerunAwait,
                   clicks, issued, putIssued, disturbed>>
          /\ UNCHANGED image /\ lastInput' = noInputConsumed

\* handleUrlFetch ends: the image was fetched (ok) or an error was caught
UrlFetchDone(ok) ==
    /\ isFetchingUrl
    /\ isFetchingUrl' = FALSE
    /\ files' = IF ok /\ files < MaxFiles THEN files + 1 ELSE files
    /\ UNCHANGED <<isLoading, error, modelUrl, steps, generatedImages,
                   totalGenerationTime, generationId, falCancelUrl, timerIntervalRef,
                   stepStartRef, generationStartRef, run, cancelAwait, rerunAwait,
                   clicks, issued, putIssued, disturbed>>
          /\ UNCHANGED image /\ lastInput' = noInputConsumed

-----------------------------------------------------------------------------

InitOrchestration ==
    /\ files = 0
    /\ isFetchingUrl = FALSE
    /\ isLoading = FALSE
    /\ error = NoError
    /\ modelUrl = "null"
    /\ steps = <<>>
    /\ generatedImages = <<>>
    /\ totalGenerationTime = "null"
    /\ generationId = 0
    /\ falCancelUrl = 0
    /\ timerIntervalRef = 0
    /\ stepStartRef = FALSE
    /\ generationStartRef = "null"
    /\ run = [r \in Slots |-> idleRun]
    /\ cancelAwait = 0
    /\ rerunAwait = 0
    /\ clicks = 0
    /\ issued = {}
    /\ putIssued = {}
    /\ disturbed = {}
    /\ lastInput = noInputConsumed

Init == InitOrchestration /\ image = noImage

RunStep(r) ==
    \/ FilesRead(r)
    \/ \E v \in 1..3, ok \in BOOLEAN : ViewResponse(r, v, ok)
    \/ \E ok \in BOOLEAN : ResizeDone(r, ok)
    \/ \E outcome \in {"ok", "http", "reject"} : SubmitResponse(r, outcome)
    \/ \E body \in SubmitBodies : SubmitText(r, body)
    \/ SubmitJson(r)
    \/ \E status \in {"COMPLETED", "ERROR", "IN_PROGRESS"}, logs \in LogInputs :
          \* logs is read only when the status is ERROR
          ((status = "ERROR" \/ ~logs.has) /\ PollResponse(r, status, logs))
    \/ SleepDone(r)
    \/ \E d \in ResultInputs : ResultResponse(r, d)

Next ==
    \/ startGeneration
    \/ rerunImageGenerationStep
    \/ \E ok \in BOOLEAN : RerunResume(ok)
    \/ handleCancelGeneration
    \/ \E ok \in BOOLEAN : CancelResume(ok)
    \/ reset
    \/ \E n \in 1..2 : handleFileChange(n)
    \/ removeFile
    \/ handleUrlFetch
    \/ \E ok \in BOOLEAN : UrlFetchDone(ok)
    \/ TimerTick
    \/ \E r \in Slots : RunStep(r)

Spec == Init /\ [][Next]_vars

-----------------------------------------------------------------------------
(* resizeImage on its own *)

orchestration ==
    <<files, isFetchingUrl, isLoading, error, modelUrl, steps, generatedImages,
      totalGenerationTime, generationId, falCancelUrl, timerIntervalRef,
      stepStartRef, generationStartRef, run, cancelAwait, rerunAwait, clicks,
      issued, putIssued, disturbed, lastInput>>

\* img.width and img.height of the loaded image
ImageSides == (1..MaxSide) \cup {1000, 2000}

\* maxSize; the callers pass 1024
MaxSizes == (1..MaxMaxSize) \cup {1024}

\* resizeImage(imageUrl, maxSize) has been called on an image that is loading
InitResize ==
    /\ InitOrchestration
    /\ image \in [width : ImageSides, height : ImageSides, maxSize : MaxSizes,
                  canvas : {<<>>}]

\* img.onload, lines 217-245: the canvas gets its dimensions
ImageLoads ==
    /\ image.canvas = <<>>
    /\ image.width > 0
    /\ image' = [image EXCEPT
                    !.canvas = ResizeDims(image.width, image.height, image.maxSize)]
    /\ UNCHANGED orchestration

NextResize == ImageLoads

SpecResize == InitResize /\ [][NextResize]_vars

-----------------------------------------------------------------------------
(* Properties *)

\* A run that has begun, has not ended, and whose captured id is no longer live.
Superseded(r) == r \in Running /\ run[r].id # generationId

\* A run that has begun, has not ended, and whose captured id is the live one.
Live(r) == r \in Running /\ run[r].id = generationId

\* A continuation of run r executes in this step.
Continues(r) == run'[r] # run[r] /\ run[r].pc # "idle"

\* C1: a continuation of a superseded run changes none of the consumer-visible
\* signals (steps, generated images, mesh URL, error, busy flag, total time),
\* whether its pending request succeeded or failed.
C1_StaleContinuationsInvisible ==
    [][\A r \in Slots : (Superseded(r) /\ Continues(r)) => UNCHANGED visible]_vars

\* A superseded run's request failed and the failure was dropped: no error shows.
C1_Witness ==
    \E r \in Slots : run[r].end = "dropped" /\ error = NoError

\* handleCancelGeneration reaches its end in this step.
CancelCompletes ==
    \/ \E ok \in BOOLEAN : CancelResume(ok)
    \/ handleCancelGeneration /\ falCancelUrl = 0

\* What cancel() leaves besides the step list.
CancelledRest ==
    /\ generatedImages = <<>>
    /\ modelUrl = "null"
    /\ error = NoError
    /\ totalGenerationTime = "null"
    /\ ~isLoading
    /\ falCancelUrl = 0

\* C2, original statement: when cancel() completes the state is that of the
\* initial load, with an empty step list.
C2_InitialLoadState ==
    [][CancelCompletes => (steps = <<>> /\ CancelledRest)']_vars

\* C2 amended: when cancel() completes there are no images, no mesh URL, no error,
\* no total time, busy is false and the cancel handle is null, at whichever stage
\* it was invoked; the step list holds the two initial steps, both pending.
C2_CancelResets ==
    [][CancelCompletes => (steps = initialSteps /\ CancelledRest)']_vars

\* cancel() was invoked while the status request was in flight and has completed.
C2_Witness ==
    /\ \E r \in Slots : Superseded(r) /\ run[r].pc = "poll"
    /\ cancelAwait = 0 /\ rerunAwait = 0
    /\ generationId > Cardinality(Started)
    /\ steps = initialSteps /\ CancelledRest

\* C3: a run whose requests all succeed and during which no cancel or rerun
\* handler executed ends with the fetched mesh URL, two steps both done, a total
\* time, no error, busy false, the start timestamp and the cancel handle cleared.
C3_SuccessfulRun ==
    [][\A r \in Slots, d \in ResultInputs :
         (ResultResponse(r, d) /\ ~ResultIsBad(d) /\ Live(r) /\ r \notin disturbed)
         => /\ modelUrl' = d.url /\ d.url # "null"
            /\ Len(steps') = 2
            /\ steps'[1].status = "done" /\ steps'[2].status = "done"
            /\ totalGenerationTime' # "null"
            /\ error' = NoError
            /\ ~isLoading'
            /\ generationStartRef' = "null"
            /\ falCancelUrl' = 0]_vars

C3_Witness ==
    \E r \in Slots :
        /\ run[r].end = "success" /\ r \notin disturbed
        /\ modelUrl = "meshB" /\ totalGenerationTime = "duration" /\ ~isLoading
        /\ steps[1].status = "done" /\ steps[2].status = "done"

\* C4: startGeneration with no input file, or while busy, changes nothing: no new
\* generation id, no request, the same signals, timestamp and cancel handle.
C4_StartIgnored ==
    [][(startGeneration /\ (files = 0 \/ isLoading))
         => UNCHANGED <<generationId, issued, run, visible, generationStartRef,
                        falCancelUrl>>]_vars

\* Generate was clicked with no file: nothing began, busy is false.
C4_Witness ==
    clicks > 0 /\ generationId = 0 /\ files = 0 /\ ~isLoading /\ Started = {}

\* C5: at most one run that has not ended holds the live generation id, and a
\* run that does not hold it changes neither the generation id nor the step list
\* (the shared state of the ledger).
C5_AtMostOneLive ==
    /\ [](Cardinality({r \in Slots : Live(r)}) <= 1)
    /\ [][\A r \in Slots : (Continues(r) /\ ~Live(r))
                              => UNCHANGED <<generationId, steps>>]_vars

\* Two runs are in flight; one of them is live.
C5_Witness ==
    Cardinality(Running) = 2 /\ \E r \in Slots : Live(r)

\* The text `part` occurs in the text `whole`.
Contains(whole, part) ==
    \E i \in 0..(Len(whole) - Len(part)) : SubSeq(whole, i + 1, i + Len(part)) = part

\* C6: when the status endpoint reports ERROR to the live run, the error is the
\* joined log messages, step 2 is error, step 1 done, the mesh URL null, no
\* result fetch was issued and busy is false.
C6_PollError ==
    [][\A r \in Slots, logs \in LogInputs :
         (PollResponse(r, "ERROR", logs) /\ Live(r))
         => /\ JoinedLogs(logs) # <<>> => error' = JoinedLogs(logs)
            /\ error' # NoError
            /\ steps'[2].status = "error"
            /\ steps'[1].status = "done"
            /\ modelUrl' = "null"
            /\ <<r, "result">> \notin issued'
            /\ ~isLoading']_vars

\* C7: when the submission is answered with a non-success status, the error
\* contains the response body, step 2 is error, step 1 done, no status request
\* was issued for the run and the cancel handle is null.
C7_SubmitRejected ==
    [][\A r \in Slots, body \in SubmitBodies :
         (SubmitText(r, body) /\ Live(r))
         => /\ Contains(error', body) /\ error' # NoError
            /\ steps'[2].status = "error"
            /\ steps'[1].status = "done"
            /\ <<r, "status">> \notin issued'
            /\ falCancelUrl' = 0]_vars

\* C8: when the fetched result reports ERROR or carries no mesh URL, the live run
\* fails: the mesh URL stays null, step 2 is error, the total time stays null and
\* the error carries the joined result logs or the generic fallback.
C8_BadResult ==
    [][\A r \in Slots, d \in ResultInputs :
         (ResultResponse(r, d) /\ ResultIsBad(d) /\ Live(r))
         => /\ modelUrl' = "null"
            /\ steps'[2].status = "error"
            /\ totalGenerationTime' = "null"
            /\ Contains(error', IF JoinedLogs(d.logs) # <<>> THEN JoinedLogs(d.logs)
                                ELSE <<"Unknown error">>)]_vars

\* C9: when a view request of the live run returns no image, the error names
\* that view, step 1 is error, step 2 pending, no image is listed and no job was
\* submitted.
C9_ViewFailed ==
    [][\A r \in Slots, v \in 1..3 :
         (ViewResponse(r, v, FALSE) /\ Live(r))
         => /\ Contains(error', <<viewNames[v]>>)
            /\ steps'[1].status = "error"
            /\ steps'[2].status = "pending"
            /\ generatedImages' = <<>>
            /\ <<r, "submit">> \notin issued']_vars

\* C10: a run superseded while its status request is in flight issues no further
\* request (no status request, no result fetch) and has no further effect.
C10_StalePollStops ==
    [][\A r \in Slots :
         (Superseded(r) /\ run[r].pc = "poll" /\ Continues(r))
         => /\ run'[r].pc = "done"
            /\ issued' = issued
            /\ UNCHANGED <<visible, falCancelUrl, generationStartRef>>]_vars

\* The statements of C6..C9 restricted to runs during which no cancel or rerun
\* handler executed: there they hold, so their failure above comes only from a
\* cancel handler that resumes after a newer generation has begun.
C6_Undisturbed ==
    [][\A r \in Slots, logs \in LogInputs :
         (PollResponse(r, "ERROR", logs) /\ Live(r) /\ r \notin disturbed)
         => /\ error' = PollErrorMessage(logs)
            /\ steps'[2].status = "error" /\ steps'[1].status = "done"
            /\ modelUrl' = "null" /\ <<r, "result">> \notin issued'
            /\ ~isLoading']_vars

C7_Undisturbed ==
    [][\A r \in Slots, body \in SubmitBodies :
         (SubmitText(r, body) /\ Live(r) /\ r \notin disturbed)
         => /\ Contains(error', body)
            /\ steps'[2].status = "error" /\ steps'[1].status = "done"
            /\ <<r, "status">> \notin issued' /\ falCancelUrl' = 0]_vars

C8_Undisturbed ==
    [][\A r \in Slots, d \in ResultInputs :
         (ResultResponse(r, d) /\ ResultIsBad(d) /\ Live(r) /\ r \notin disturbed)
         => /\ modelUrl' = "null" /\ steps'[2].status = "error"
            /\ totalGenerationTime' = "null"
            /\ error' = ResultErrorMessage(d.logs)]_vars

C9_Undisturbed ==
    [][\A r \in Slots, v \in 1..3 :
         (ViewResponse(r, v, FALSE) /\ Live(r) /\ r \notin disturbed)
         => /\ error' = ViewError(viewNames[v])
            /\ steps'[1].status = "error" /\ steps'[2].status = "pending"
            /\ generatedImages' = <<>> /\ <<r, "submit">> \notin issued']_vars

-----------------------------------------------------------------------------

\* The continuation of run r that executes in this step is its last one: the
\* finally block of performGeneration has run.
Finishes(r) == Continues(r) /\ run'[r].pc = "done"

\* C11: the finally block of a run sets the busy flag to false and clears the
\* cancel handle exactly when the run's captured id is still the live one: a
\* run of the current generation that terminates leaves busy false and the
\* handle null; the finally block of a superseded run changes neither (the only
\* write a superseded run's last continuation makes to the handle is the
\* assignment of line 314, which precedes the finally block).
C11_FinalizerIffLive ==
    [][\A r \in Slots : Finishes(r) =>
          IF run[r].id = generationId
          THEN ~isLoading' /\ falCancelUrl' = 0
          ELSE /\ isLoading' = isLoading
               /\ \/ falCancelUrl' = falCancelUrl
                  \/ run[r].pc = "submitJson" /\ falCancelUrl' = r]_vars

\* A superseded run has ended while a later generation is busy, and a run of
\* a current generation has ended before it.
C11_Witness ==
    /\ isLoading
    /\ \E r \in Slots : run[r].end \in {"stale", "dropped"}
    /\ \E q \in Slots : Live(q)

\* C12: when the PUT of a cancel or of a rerun is rejected, the handler still
\* completes and sets no error message: the cancel resets the state to its
\* input-collection form, the rerun begins a new generation.
C12_PutFailureSwallowed ==
    [][/\ (cancelAwait' = cancelAwait - 1 /\ lastInput'.put = "rejected")
            => /\ error' = NoError
               /\ ~isLoading' /\ files' = 0 /\ steps' = initialSteps
               /\ generatedImages' = <<>> /\ modelUrl' = "null"
               /\ falCancelUrl' = 0
       /\ (rerunAwait' = rerunAwait - 1 /\ lastInput'.put = "rejected")
            => /\ error' = NoError
               /\ isLoading' /\ generationId' = generationId + 1
               /\ \E r \in Slots : /\ run[r].pc = "idle"
                                   /\ run'[r].pc = "readFiles"
                                   /\ run'[r].id = generationId']_vars

\* The second click was a Rerun whose PUT was rejected, and the generation it
\* began is reading the files.
C12_Witness ==
    /\ lastInput.put = "rejected" /\ clicks = 2 /\ putIssued = {1}
    /\ run[2].pc = "readFiles" /\ Live(2)
    /\ error = NoError /\ isLoading

-----------------------------------------------------------------------------

\* The event loop runs every continuation whose awaited promise has settled:
\* performGeneration's requests, the PUT of a rerun and the URL fetch settle;
\* nothing makes the PUT awaited by handleCancelGeneration settle.
CancelPutMayHang ==
    /\ \A r \in Slots : WF_vars(RunStep(r))
    /\ WF_vars(\E ok \in BOOLEAN : RerunResume(ok))
    /\ WF_vars(\E ok \in BOOLEAN : UrlFetchDone(ok))

SpecCancelPutMayHang == Spec /\ CancelPutMayHang

\* C13: once Cancel has been clicked while a cancel handle is retained, the
\* state is eventually reset (busy false, images and mesh cleared, steps back
\* to their initial form) whether or not the PUT ever settles.
C13_CancelEventuallyResets ==
    (cancelAwait > 0) ~> (/\ ~isLoading
                          /\ generatedImages = <<>>
                          /\ modelUrl = "null"
                          /\ steps = initialSteps)

-----------------------------------------------------------------------------

\* The job of run r has been submitted and the run of the current generation
\* is still polling it or fetching its result.
JobOutstanding(r) == Live(r) /\ run[r].pc \in {"poll", "sleep", "result"}

\* C14: the cancel handle is non-null only while the job of the current
\* generation is outstanding (or while a cancel handler still holds it for its
\* PUT); in particular it is null throughout stage 1 of every generation.
C14_HandleOnlyWhileOutstanding ==
    /\ falCancelUrl # 0 => (cancelAwait > 0 \/ JobOutstanding(falCancelUrl))
    /\ \A r \in Slots :
          (Live(r) /\ run[r].pc \in {"readFiles", "views"}) => falCancelUrl = 0

-----------------------------------------------------------------------------

\* Step 2 is loading.
Step2Loading(ss) == Len(ss) = 2 /\ ss[2].status = "loading"

\* C15: step 2 becomes loading only in the step in which the third of a run's
\* view requests resolves successfully; whatever the order in which the three
\* settled, the generated images are then front, back, left; and a job is
\* submitted only by a run holding those three results, with the front, back
\* and left inputs being the resized front, back and left views.
C15_ViewsBeforeJob ==
    [][/\ (Step2Loading(steps') /\ ~Step2Loading(steps))
            => \E r \in Slots : /\ run[r].pc = "views" /\ Len(run[r].views) = 2
                                /\ run'[r].pc = "resize"
                                /\ Len(lastInput'.settled) = 3
       /\ Len(lastInput'.settled) = 3
            => /\ generatedImages' = results
               /\ \E r \in Slots : /\ run[r].pc = "views"
                                   /\ run'[r].results = results
       /\ \A r \in Slots :
            (<<r, "submit">> \in issued' /\ <<r, "submit">> \notin issued)
            => /\ run[r].pc = "resize" /\ run[r].results = results
               /\ run'[r].input =
                     [front_image_url |-> ResizeImage(viewNames[1]),
                      back_image_url  |-> ResizeImage(viewNames[2]),
                      left_image_url  |-> ResizeImage(viewNames[3])]]_vars

\* The three views have just resolved, the left side view first and the front
\* view last; step 2 is loading and the images are front, back, left.
C15_Witness ==
    /\ Len(lastInput.settled) = 3
    /\ lastInput.settled[1].pos = 3 /\ lastInput.settled[3].pos = 1
    /\ Step2Loading(steps)
    /\ generatedImages = results
    /\ \E r \in Slots : Live(r) /\ run[r].pc = "resize"

-----------------------------------------------------------------------------

\* C16: for the job of each run at most one status request awaits its response
\* and at most one result request is ever issued; a status request is issued
\* only when none is outstanding, and the result request only in the step that
\* goes on from a status body saying COMPLETED.
C16_PollingSequential ==
    /\ [](\A r \in Slots : run[r].polls <= 1 /\ run[r].fetches <= 1)
    /\ [][\A r \in Slots :
            /\ run'[r].polls > run[r].polls => run[r].polls = 0
            /\ (run'[r].fetches > run[r].fetches
                  \/ (<<r, "result">> \in issued' /\ <<r, "result">> \notin issued))
               => /\ run[r].pc = "poll" /\ run[r].fetches = 0
                  /\ run'[r].pollBody = "COMPLETED"]_vars

\* A status body saying COMPLETED has just been received by a current run: no
\* status request is outstanding and the one result request has been issued.
C16_Witness ==
    \E r \in Slots : /\ Live(r) /\ run[r].pc = "result"
                        /\ run[r].pollBody = "COMPLETED"
                        /\ run[r].polls = 0 /\ run[r].fetches = 1
                        /\ <<r, "result">> \in issued

-----------------------------------------------------------------------------

\* The steps of the program while nobody clicks Rerun or Cancel.
NextUndisturbed ==
    \/ startGeneration
    \/ reset
    \/ \E n \in 1..2 : handleFileChange(n)
    \/ removeFile
    \/ handleUrlFetch
    \/ \E ok \in BOOLEAN : UrlFetchDone(ok)
    \/ TimerTick
    \/ \E r \in Slots : RunStep(r)

\* The status request of run r is answered with a terminal status.
TerminalStatus(r) ==
    \E status \in {"COMPLETED", "ERROR"}, logs \in LogInputs :
        PollResponse(r, status, logs)

\* Every request of performGeneration eventually completes and its continuation
\* runs; a job that is polled again and again eventually reports a terminal
\* status.
RequestsComplete ==
    \A r \in Slots : WF_vars(RunStep(r)) /\ SF_vars(TerminalStatus(r))

SpecUndisturbed == Init /\ [][NextUndisturbed]_vars /\ RequestsComplete

\* C17: a current run keeps polling: after the submission and after each
\* 5 s delay it issues a status request, a status body that is neither
\* COMPLETED nor ERROR sends it to the delay, and it leaves the loop only for
\* the result request or with an error.  When every request completes and the
\* job eventually reports a terminal status, a run that polls eventually ends,
\* with busy false and a mesh URL or an error message.
C17_PollsUntilTerminal ==
    /\ [][\A r \in Slots : (Live(r) /\ Continues(r)) =>
            /\ run[r].pc \in {"submitJson", "sleep"}
                  => /\ run'[r].pc = "poll" /\ run'[r].polls = 1
                     /\ <<r, "status">> \in issued'
            /\ run[r].pc = "poll"
                  => \/ run'[r].pc = "sleep" /\ run'[r].pollBody = "IN_PROGRESS"
                     \/ run'[r].pc = "result" /\ run'[r].pollBody = "COMPLETED"
                     \/ run'[r].end = "error" /\ error' # NoError]_vars
    /\ \A r \in Slots :
          (run[r].pc = "poll")
             ~> (/\ run[r].pc = "done" /\ ~isLoading
                 /\ (modelUrl # "null" \/ error # NoError))

\* A run that polled its job has ended, leaving busy false and a mesh URL or
\* an error message.
C17_Witness ==
    \E r \in Slots : /\ run[r].end \in {"success", "error"}
                     /\ <<r, "status">> \in issued
                     /\ ~isLoading
                     /\ (modelUrl # "null" \/ error # NoError)

-----------------------------------------------------------------------------

\* C18: a step timer is active only while the step it belongs to is loading
\* (the one interval reference holds at most one timer): no step that is done
\* or in error, and no reset step list, is left with its timer running.
C18_TimerOnlyWhileLoading ==
    timerIntervalRef # 0 =>
        /\ timerIntervalRef \in DOMAIN steps
        /\ steps[timerIntervalRef].status = "loading"

-----------------------------------------------------------------------------

\* The step is the end of a rerun: the click itself when no cancel handle is
\* retained, else the resumption from the PUT.
RerunCompletes ==
    \/ rerunAwait' = rerunAwait - 1
    \/ /\ isLoading /\ falCancelUrl = 0
       /\ clicks' = clicks + 1 /\ run' # run

\* C19: when a rerun completes, a new generation with a strictly larger id is
\* running, every earlier run is stale, step 1 is loading and step 2 pending,
\* images, mesh URL, error and total time are cleared and busy is true; and a
\* click on Rerun while a cancel handle is retained issues the PUT for it.
C19_RerunRestarts ==
    [][/\ RerunCompletes =>
            /\ generationId' > generationId
            /\ \E r \in Slots : /\ run[r].pc = "idle"
                                /\ run'[r].pc = "readFiles"
                                /\ run'[r].id = generationId'
            /\ \A q \in Slots : run[q].pc # "idle" => run'[q].id # generationId'
            /\ Len(steps') = 2
            /\ steps'[1].status = "loading" /\ steps'[2].status = "pending"
            /\ generatedImages' = <<>> /\ modelUrl' = "null"
            /\ error' = NoError /\ totalGenerationTime' = "null"
            /\ isLoading'
       /\ rerunAwait' = rerunAwait + 1 =>
            /\ falCancelUrl # 0
            /\ falCancelUrl \in putIssued']_vars

\* A click on Rerun during polling issued the PUT for job 1; the PUT has just
\* resolved and the second generation is reading the files while run 1 is stale.
C19_Witness ==
    /\ lastInput.put = "resolved" /\ clicks = 2 /\ putIssued = {1}
    /\ run[2].pc = "readFiles" /\ Live(2) /\ Superseded(1)
    /\ steps[1].status = "loading" /\ steps[2].status = "pending"
    /\ generatedImages = <<>> /\ isLoading

-----------------------------------------------------------------------------

\* The run r of the current generation fails in this step: its catch block
\* sets the error message.
Fails(r) == Live(r) /\ Continues(r) /\ run'[r].end = "error"

\* Run r is in stage 2: its views have been generated.
InStage2(r) ==
    run[r].pc \in {"resize", "submit", "submitText", "submitJson", "poll",
                   "sleep", "result"}

\* What C20 says of a failing step of run r.
FailureKeepsPartialResults(r) ==
    /\ error' # NoError
    /\ Len(steps') = Len(steps)
    /\ \A i \in DOMAIN steps :
          steps'[i].status = IF steps[i].status = "loading" THEN "error"
                             ELSE steps[i].status
    /\ \E i \in DOMAIN steps' :
          /\ steps'[i].status = "error"
          /\ i = IF InStage2(r) THEN 2 ELSE 1
    /\ generationStartRef' = "null"
    /\ modelUrl' = "null" /\ totalGenerationTime' = "null"
    /\ generatedImages' = generatedImages
    /\ InStage2(r) => generatedImages' = results

\* C20: when the run of the current generation fails, the step that was
\* loading, the active one, becomes error and no other step changes, the start
\* timestamp is cleared, mesh URL and total time are null, and the generated
\* images are kept: after a failure in stage 2 they are the three views.
C20_FailureKeepsPartialResults ==
    [][\A r \in Slots : Fails(r) => FailureKeepsPartialResults(r)]_vars

\* The same, for the runs during which no cancel or rerun handler executes.
C20_Undisturbed ==
    [][\A r \in Slots :
          (Fails(r) /\ r \notin disturbed) => FailureKeepsPartialResults(r)]_vars

-----------------------------------------------------------------------------

\* A generation begins in this step: performGeneration is invoked, by an
\* accepted start or at the end of a rerun.
Begins == \E r \in Slots : run[r].pc = "idle" /\ run'[r].pc # "idle"

\* The step is a click on Cancel & Start Over (up to its await, or to its end).
CancelClicked ==
    /\ isLoading /\ clicks' = clicks + 1 /\ run' = run
    /\ cancelAwait' = cancelAwait + 1 \/ ~isLoading'

\* C21: the generation id changes only in a step that begins a generation or
\* is a click on Cancel, and then by exactly +1; every other step (Create
\* Another, file handling, URL fetch, timer, request completions, the
\* resumption of a cancel) leaves it unchanged; so the ids captured by the
\* runs are pairwise different and never exceed the current id.
C21_IdMonotonic ==
    /\ [][/\ generationId' # generationId
             => (generationId' = generationId + 1 /\ (Begins \/ CancelClicked))
          /\ (Begins \/ CancelClicked) => generationId' = generationId + 1]_vars
    /\ [](\A r, q \in Started :
            /\ run[r].id >= 1 /\ run[r].id <= generationId
            /\ r # q => run[r].id # run[q].id)

\* Two generations have begun and one cancel has bumped the id.
C21_Witness ==
    /\ generationId = 3 /\ Cardinality(Started) = 2 /\ clicks = 3

-----------------------------------------------------------------------------

\* k is a / b rounded to the nearest integer, halves upwards.
IsRounded(k, a, b) == (2 * k - 1) * b <= 2 * a /\ 2 * a < (2 * k + 1) * b

\* C22: an image of width w and height h normalised with maximum M keeps its
\* dimensions when max(w, h) <= M; otherwise its longer side becomes M and its
\* shorter side becomes shorter * M / longer rounded; 2000 x 1000 with M = 1024
\* gives 1024 x 512.
C22_ResizeDims ==
    image.canvas # <<>> =>
        LET w == image.width
            h == image.height
            M == image.maxSize
            out == image.canvas
        IN /\ Len(out) = 2
           /\ (w <= M /\ h <= M) => out = <<w, h>>
           /\ (w > h /\ w > M) => (out[1] = M /\ IsRounded(out[2], h * M, w))
           /\ (h > w /\ h > M) => (out[2] = M /\ IsRounded(out[1], w * M, h))
           /\ (w = h /\ w > M) => out = <<M, M>>
           /\ (w = 2000 /\ h = 1000 /\ M = 1024) => out = <<1024, 512>>

\* The 2000 x 1000 image has been normalised with maxSize 1024.
C22_Witness ==
    /\ image.width = 2000 /\ image.height = 1000 /\ image.maxSize = 1024
    /\ image.canvas = <<1024, 512>>

-----------------------------------------------------------------------------

\* C23: a continuation of a superseded run never writes the retained cancel
\* handle, whichever of its awaits (the submit response, its decoding) the
\* cancel or the newer generation intervened in.
C23_StaleNeverStoresHandle ==
    [][\A r \in Slots :
          (Superseded(r) /\ Continues(r)) => falCancelUrl' = falCancelUrl]_vars

-----------------------------------------------------------------------------

\* C24: in every reachable state the busy flag is true whenever a run of the
\* current generation still has a continuation pending.
C24_BusyWhileLive ==
    \A r \in Slots : Live(r) => isLoading

-----------------------------------------------------------------------------

\* C25: in every reachable state the step list respects the pipeline order:
\* step 2 has a status other than pending only if step 1 is done, and the two
\* steps are never both loading.
C25_StepOrder ==
    Len(steps) = 2 =>
        /\ steps[2].status # "pending" => steps[1].status = "done"
        /\ ~(steps[1].status = "loading" /\ steps[2].status = "loading")

\* The same, as long as no cancel or rerun handler has executed during a run:
\* there the order holds, so its failure above comes only from a cancel
\* handler that resets after a newer generation has begun.
C25_Undisturbed ==
    disturbed = {} => C25_StepOrder

-----------------------------------------------------------------------------

\* The job of run r can no longer be cancelled: the run was superseded after its
\* submit request was issued and has ended, no PUT went to its cancel URL, and
\* the handle does not name it, so no later cancel or rerun can send one.
Orphaned(r) ==
    /\ run[r].pc = "done" /\ run[r].end \in {"stale", "dropped"}
    /\ <<r, "submit">> \in issued
    /\ r \notin putIssued
    /\ falCancelUrl # r

\* C26: whenever a cancel or a rerun supersedes a run whose submit request has
\* been issued, a PUT to that job's cancel URL is eventually issued.  On finite
\* runs: no state is reached from which that PUT can never be issued.
C26_NoJobOrphaned ==
    \A r \in Slots : ~Orphaned(r)

-----------------------------------------------------------------------------

\* C27: while a rerun is awaiting its PUT, no continuation of a run that was in
\* flight when Rerun was clicked changes the consumer-visible state (mesh URL,
\* error, steps, total time, busy flag).
C27_ReplacedGenerationSilent ==
    [][\A r \in Slots :
          (rerunAwait > 0 /\ r \in disturbed /\ Continues(r))
          => UNCHANGED visible]_vars

====
